---- MODULE Spec2Model ----
(***************************************************************************)
(* Model of the template helpers of pkg/engine/funcs.go: the format bridge *)
(* (toYaml, toJson, toToml, fromYaml, fromJson, fromYamlDocument) and the  *)
(* predicate filter (doFilter, mustFilter, filter).                        *)
(*                                                                         *)
(* A Go value is a record [kind, x]: kind is its reflect.Kind ("string",   *)
(* "int", "float64", "func", "nil" for a nil interface) and x the text     *)
(* fmt would print for it.  A Go map or struct is a function from Keys to  *)
(* such values, an entry of kind "absent" standing for a missing key or    *)
(* field.  A text handed to a parser is the sequence of the tokens the     *)
(* parser scans: "key: value" fields and malformed tokens.                 *)
(***************************************************************************)
EXTENDS Integers, Sequences, FiniteSets, TLC

VARIABLES fn, pc, str, stream, val, m, out, pos, li, iters, docs,
          k, v, list, ret

vars == <<fn, pc, str, stream, val, m, out, pos, li, iters, docs,
          k, v, list, ret>>

(***************************************************************************)
(* Bounds of the model.                                                    *)
(***************************************************************************)
\* longest text (in tokens) handed to fromYaml / fromJson
MaxToks == 3
\* most documents in a stream handed to fromYamlDocument
MaxDocs == 3
\* longest sequence handed to filter / mustFilter
MaxLen == 2

(***************************************************************************)
(* Values.                                                                 *)
(***************************************************************************)
Keys == {"name", "id", "Error"}

Absent == [kind |-> "absent", x |-> ""]
NilV == [kind |-> "nil", x |-> ""]
StrV(s) == [kind |-> "string", x |-> s]
IntV(s) == [kind |-> "int", x |-> s]
FloatV(s) == [kind |-> "float64", x |-> s]
Func == [kind |-> "func", x |-> "0xc000"]

\* map[string]interface{}{}
EmptyMap == [key \in Keys |-> Absent]

\* the keys a map holds
MapKeys(mp) == {key \in Keys : mp[key].kind # "absent"}

\* mp[key] = value
MapSet(mp, key, value) == [mp EXCEPT ![key] = value]

(***************************************************************************)
(* The parsers.  yaml.Unmarshal, json.Unmarshal and the decoders built on  *)
(* them scan the whole document for well-formedness before they store      *)
(* anything into the target: on a malformed token they return the error    *)
(* and leave the target as it was; otherwise they store every field, in    *)
(* order, a later duplicate key overwriting an earlier one.                *)
(***************************************************************************)
Field(key, value) == [bad |-> FALSE, key |-> key, val |-> value]
Bad == [bad |-> TRUE, key |-> "", val |-> Absent]

\* index of the first malformed token of a text, 0 when there is none
FirstBad(text) ==
    IF \E i \in 1..Len(text) : text[i].bad
    THEN CHOOSE i \in 1..Len(text) :
           text[i].bad /\ \A j \in 1..(i - 1) : ~text[j].bad
    ELSE 0

RECURSIVE StoreFields(_, _, _)
\* the first n tokens of text stored into mp
StoreFields(text, n, mp) ==
    IF n = 0 THEN mp
    ELSE MapSet(StoreFields(text, n - 1, mp), text[n].key, text[n].val)

\* err = "" is Go's nil error
Unmarshal(text, mp, prefix) ==
    IF FirstBad(text) # 0
    THEN [m |-> mp,
          err |-> prefix \o "syntax error at token " \o ToString(FirstBad(text))]
    ELSE [m |-> StoreFields(text, Len(text), mp), err |-> ""]

yamlUnmarshal(text, mp) ==
    Unmarshal(text, mp, "error converting YAML to JSON: yaml: ")

jsonUnmarshal(text, mp) == Unmarshal(text, mp, "json: ")

(***************************************************************************)
(* fromYaml, fromJson.                                                     *)
(***************************************************************************)
\* fromYAML over a parser that stores fields as it reads them
fromYAMLKeepsFields(text) ==
    LET r == yamlUnmarshal(text, EmptyMap)
    IN  IF r.err # ""
        THEN MapSet(StoreFields(text, FirstBad(text) - 1, EmptyMap),
                    "Error", StrV(r.err))
        ELSE r.m

fromYAML(text) ==
    LET r == yamlUnmarshal(text, EmptyMap)
    IN  IF r.err # "" THEN MapSet(r.m, "Error", StrV(r.err)) ELSE r.m

fromJSON(text) ==
    LET r == jsonUnmarshal(text, EmptyMap)
    IN  IF r.err # "" THEN MapSet(r.m, "Error", StrV(r.err)) ELSE r.m

(***************************************************************************)
(* The multi-document decoder of fromYamlDocument: position p is the next  *)
(* document of the stream; past the last one Decode returns io.EOF.        *)
(***************************************************************************)
EOF == "EOF"

Decode(strm, p, mp) ==
    IF p > Len(strm)
    THEN [m |-> mp, err |-> EOF, pos |-> p]
    ELSE LET r == yamlUnmarshal(strm[p], mp)
         IN  [m |-> r.m, err |-> r.err, pos |-> p + 1]

\* the keys in the order the encoders write them (sorted)
KeyOrder == <<"Error", "id", "name">>

RECURSIVE Chunks(_, _)
\* the pairs <<key, value>> of the entries of mp among the first n keys

Chunks(mp, n) ==
    IF n = 0 THEN <<>>
    ELSE LET key == KeyOrder[n]
         IN  IF mp[key].kind = "absent" THEN Chunks(mp, n - 1)
             ELSE Append(Chunks(mp, n - 1), <<key, mp[key]>>)

(***************************************************************************)
(* The encoders.  An encoded text is a sequence of chunks, "\n" a chunk of *)
(* its own; <<>> is the empty string.  A value holding a function cannot   *)
(* be encoded by any format; TOML also rejects a top-level value that is   *)
(* not a table.                                                            *)
(***************************************************************************)
HasFunc(value) ==
    \/ value.kind = "func"
    \/ value.kind = "map" /\ \E key \in Keys : value.m[key].kind = "func"

Quote(s) == "\"" \o s \o "\""

JsonLit(value) ==
    CASE value.kind = "string" -> Quote(value.x)
      [] value.kind = "nil" -> "null"
      [] OTHER -> value.x

YamlLit(value) ==
    CASE value.kind = "string" /\ value.x = "42" -> Quote(value.x)
      [] value.kind = "nil" -> "null"
      [] OTHER -> value.x

RECURSIVE JsonMembers(_, _)
JsonMembers(cs, n) ==
    IF n = 0 THEN <<>>
    ELSE JsonMembers(cs, n - 1)
           \o (IF n > 1 THEN <<",">> ELSE <<>>)
           \o <<Quote(cs[n][1]) \o ":" \o JsonLit(cs[n][2])>>

RECURSIVE YamlLines(_, _)
YamlLines(cs, n) ==
    IF n = 0 THEN <<>>
    ELSE YamlLines(cs, n - 1) \o <<cs[n][1] \o ": " \o YamlLit(cs[n][2]), "\n">>

RECURSIVE TomlLines(_, _)
TomlLines(cs, n) ==
    IF n = 0 THEN <<>>
    ELSE TomlLines(cs, n - 1) \o <<cs[n][1] \o " = " \o JsonLit(cs[n][2]), "\n">>

jsonMarshal(value) ==
    IF HasFunc(value)
    THEN [data |-> <<>>, err |-> "json: unsupported type: func()"]
    ELSE IF value.kind = "map"
    THEN LET cs == Chunks(value.m, Len(KeyOrder))
         IN  [data |-> <<"{">> \o JsonMembers(cs, Len(cs)) \o <<"}">>, err |-> ""]
    ELSE [data |-> <<JsonLit(value)>>, err |-> ""]

yamlMarshal(value) ==
    IF HasFunc(value)
    THEN [data |-> <<>>,
          err |-> "error marshaling into JSON: json: unsupported type: func()"]
    ELSE IF value.kind = "map"
    THEN LET cs == Chunks(value.m, Len(KeyOrder))
         IN  [data |-> IF cs = <<>> THEN <<"{}", "\n">> ELSE YamlLines(cs, Len(cs)),
              err |-> ""]
    ELSE [data |-> <<YamlLit(value), "\n">>, err |-> ""]

tomlEncode(value) ==
    IF value.kind # "map"
    THEN [data |-> <<>>,
          err |-> "toml: top-level values must be Go maps or structs"]
    ELSE IF HasFunc(value)
    THEN [data |-> <<>>, err |-> "toml: unsupported type: func"]
    ELSE LET cs == Chunks(value.m, Len(KeyOrder))
         IN  [data |-> TomlLines(cs, Len(cs)), err |-> ""]

\* strings.TrimSuffix(s, "\n")
TrimSuffix(s) ==
    IF Len(s) > 0 /\ s[Len(s)] = "\n" THEN SubSeq(s, 1, Len(s) - 1) ELSE s

(***************************************************************************)
(* toYaml, toJson, toToml.                                                 *)
(***************************************************************************)
toYAML(value) ==
    LET r == yamlMarshal(value)
    IN  IF r.err # "" THEN <<>> ELSE TrimSuffix(r.data)

toJSON(value) ==
    LET r == jsonMarshal(value)
    IN  IF r.err # "" THEN <<>> ELSE r.data

\* toTOML swallowing the error as toYAML does
toTOMLSwallows(value) ==
    LET r == tomlEncode(value)
    IN  IF r.err # "" THEN <<>> ELSE r.data

toTOML(value) ==
    LET r == tomlEncode(value)
    IN  IF r.err # "" THEN <<r.err>> ELSE r.data

(***************************************************************************)
(* The predicate filter.  A candidate (an element of the collection, or    *)
(* the collection itself) is [kind, x, m]: kind "map" (m its entries),     *)
(* "struct" or "ptr" (a pointer to a struct; m the fields), a scalar kind  *)
(* (x its text) or "nil".  A collection has, besides, the sequence l of    *)
(* its elements when its kind is "slice" or "array".                       *)
(***************************************************************************)
\* reflect.DeepEqual on two scalar interface values: same type, same value
DeepEqual(a, b) == a.kind = b.kind /\ a.x = b.x

\* reflect.Value.String(): the string of a string Value, "<T Value>" of any
\* other, "<invalid Value>" of the zero Value
ValueString(el) ==
    CASE el.kind = "string" -> el.x
      [] el.kind = "absent" -> "<invalid Value>"
      [] OTHER -> "<" \o el.kind \o " Value>"

\* reflect.Value.FieldByName(name) on a struct: the zero Value when the
\* struct has no such field
FieldByName(fields, name) ==
    IF name \in Keys THEN fields[name] ELSE Absent

\* FieldByName panics unless the Value is a struct: doFilter panics on a
\* candidate that is neither a map, a struct nor a pointer to a struct
doFilterPanics(item) == item.kind \notin {"map", "struct", "ptr"}

\* doFilter comparing a map's value by its text alone
doFilterByText(item, key, value) ==
    IF item.kind = "map"
    THEN IF \E mk \in MapKeys(item.m) : mk = key
         THEN item.m[key].x = value.x
         ELSE FALSE
    ELSE DeepEqual(StrV(ValueString(FieldByName(item.m, key))), value)

\* doFilter(item, k, v), for a candidate it does not panic on
doFilter(item, key, value) ==
    IF item.kind = "map"
    THEN IF \E mk \in MapKeys(item.m) : mk = key
         THEN DeepEqual(item.m[key], value)
         ELSE FALSE
    ELSE DeepEqual(StrV(ValueString(FieldByName(item.m, key))), value)

NoResult == [res |-> <<>>, err |-> "", panic |-> ""]

Panic(msg) == [res |-> <<>>, err |-> "", panic |-> msg]

\* one candidate of mustFilter: key := k.(string); doFilter(item, key, v)
\* match is meaningful when panic = ""
Candidate(key, value, item) ==
    IF key.kind # "string"
    THEN [match |-> FALSE,
          panic |-> "interface conversion: interface {} is " \o key.kind
                      \o ", not string"]
    ELSE IF doFilterPanics(item)
    THEN [match |-> FALSE,
          panic |-> "reflect: call of reflect.Value.FieldByName on "
                      \o (IF item.kind = "nil" THEN "zero" ELSE item.kind)
                      \o " Value"]
    ELSE [match |-> doFilter(item, key.x, value), panic |-> ""]

RECURSIVE FilterLoopNewestFirst(_, _, _, _)
\* the loop of mustFilter putting each match in front of the result
FilterLoopNewestFirst(key, value, l2, n) ==
    IF n = 0 THEN NoResult
    ELSE LET before == FilterLoopNewestFirst(key, value, l2, n - 1)
             c == Candidate(key, value, l2[n])
         IN  IF before.panic # "" THEN before
             ELSE IF c.panic # "" THEN Panic(c.panic)
             ELSE IF c.match
             THEN [before EXCEPT !.res = <<l2[n]>> \o before.res]
             ELSE before

RECURSIVE FilterLoop(_, _, _, _)
\* the loop of mustFilter over the first n elements of l2
FilterLoop(key, value, l2, n) ==
    IF n = 0 THEN NoResult
    ELSE LET before == FilterLoop(key, value, l2, n - 1)
             c == Candidate(key, value, l2[n])
         IN  IF before.panic # "" THEN before
             ELSE IF c.panic # "" THEN Panic(c.panic)
             ELSE IF c.match
             THEN [before EXCEPT !.res = Append(before.res, l2[n])]
             ELSE before

\* a collection as a candidate of its own
AsItem(coll) == [kind |-> coll.kind, x |-> coll.x, m |-> coll.m]

mustFilter(key, value, coll) ==
    IF coll.kind = "nil"
    THEN Panic("runtime error: invalid memory address or nil pointer dereference")
    ELSE IF coll.kind \in {"slice", "array"}
    THEN FilterLoop(key, value, coll.l, Len(coll.l))
    ELSE IF coll.kind = "map"
    THEN LET c == Candidate(key, value, AsItem(coll))
         IN  IF c.panic # "" THEN Panic(c.panic)
             ELSE IF c.match THEN [NoResult EXCEPT !.res = <<AsItem(coll)>>]
             ELSE NoResult
    ELSE [NoResult EXCEPT !.err = "cannot filter on type " \o coll.kind]

filter(key, value, coll) ==
    LET r == mustFilter(key, value, coll)
    IN  IF r.panic # "" THEN r
        ELSE IF r.err # "" THEN Panic(r.err)
        ELSE r

(***************************************************************************)
(* The inputs a call is made with.                                         *)
(***************************************************************************)
SeqsUpTo(S, n) == UNION {[1..i -> S] : i \in 0..n}

Tokens ==
    {Field("name", StrV("x")), Field("name", StrV("y")),
     Field("Error", StrV("v")), Bad}

Texts == SeqsUpTo(Tokens, MaxToks)

Documents ==
    {<<>>, <<Field("name", StrV("x"))>>, <<Field("Error", StrV("v"))>>,
     <<Bad>>, <<Field("name", StrV("x")), Bad>>}

Streams == SeqsUpTo(Documents, MaxDocs)

Scalar(value) == [kind |-> value.kind, x |-> value.x, m |-> EmptyMap]

Composite(kind, name, id) ==
    [kind |-> kind, x |-> "",
     m |-> [EmptyMap EXCEPT !["name"] = name, !["id"] = id]]

EncValues ==
    {Composite("map", a, b) :
        a \in {StrV("x"), StrV("42"), IntV("42"), Func, Absent},
        b \in {Absent, Func}}
    \cup {Scalar(StrV("x")), Scalar(IntV("42")), Scalar(NilV), Scalar(Func)}

Items ==
    {Composite("map", a, b) :
        a \in {StrV("x"), StrV("42"), IntV("42"), Absent},
        b \in {StrV("x"), Absent}}
    \cup {Composite("struct", a, Absent) : a \in {StrV("x"), IntV("42"), Absent}}
    \cup {Composite("ptr", a, Absent) : a \in {StrV("x"), IntV("42")}}
    \cup {Scalar(IntV("5")), Scalar(StrV("x")), Scalar(NilV)}

Coll(item, l) == [kind |-> item.kind, x |-> item.x, m |-> item.m, l |-> l]

Collections ==
    {Coll(Composite("slice", Absent, Absent), l) : l \in SeqsUpTo(Items, MaxLen)}
    \cup {Coll(Composite("array", Absent, Absent), l) : l \in SeqsUpTo(Items, 1)}
    \cup {Coll(item, <<>>) : item \in Items}
    \cup {Coll(Scalar(StrV("5")), <<>>), Coll(Scalar(FloatV("1.5")), <<>>),
          Coll(Scalar([kind |-> "bool", x |-> "true"]), <<>>)}

PredicateKeys == {StrV("name"), StrV("id"), IntV("5")}

PredicateValues == {StrV("x"), StrV("42"), IntV("42"), StrV("<int Value>")}

(***************************************************************************)
(* The state machine: the template engine makes one call (Init draws the   *)
(* helper and its arguments), the helper runs and returns.                 *)
(***************************************************************************)
NoText == str = <<>> /\ stream = <<>>

NoValue == val = Scalar(NilV)

NoPredicate ==
    k = StrV("") /\ v = NilV /\ list = Coll(Scalar(NilV), <<>>)

NoResults ==
    /\ m = EmptyMap
    /\ out = <<>>
    /\ pos = 0
    /\ li = <<>>
    /\ iters = 0
    /\ docs = <<>>
    /\ ret = NoResult

Init ==
    /\ pc = "call"
    /\ NoResults
    /\ \/ /\ fn \in {"fromYaml", "fromJson"}
          /\ str \in Texts
          /\ stream = <<>>
          /\ NoValue /\ NoPredicate
       \/ /\ fn = "fromYamlDocument"
          /\ stream \in Streams
          /\ str = <<>>
          /\ NoValue /\ NoPredicate
       \/ /\ fn \in {"toYaml", "toJson", "toToml"}
          /\ val \in EncValues
          /\ NoText /\ NoPredicate
       \/ /\ fn \in {"filter", "mustFilter"}
          /\ k \in PredicateKeys
          /\ v \in PredicateValues
          /\ list \in Collections
          /\ NoText /\ NoValue

args == <<fn, str, stream, val, k, v, list>>

Return == pc' = "done" /\ UNCHANGED args

FromYAML ==
    /\ pc = "call" /\ fn = "fromYaml"
    /\ m' = fromYAML(str)
    /\ Return
    /\ UNCHANGED <<out, pos, li, iters, docs, ret>>

FromJSON ==
    /\ pc = "call" /\ fn = "fromJson"
    /\ m' = fromJSON(str)
    /\ Return
    /\ UNCHANGED <<out, pos, li, iters, docs, ret>>

ToYAML ==
    /\ pc = "call" /\ fn = "toYaml"
    /\ out' = toYAML(val)
    /\ Return
    /\ UNCHANGED <<m, pos, li, iters, docs, ret>>

ToJSON ==
    /\ pc = "call" /\ fn = "toJson"
    /\ out' = toJSON(val)
    /\ Return
    /\ UNCHANGED <<m, pos, li, iters, docs, ret>>

ToTOML ==
    /\ pc = "call" /\ fn = "toToml"
    /\ out' = toTOML(val)
    /\ Return
    /\ UNCHANGED <<m, pos, li, iters, docs, ret>>

MustFilter ==
    /\ pc = "call" /\ fn = "mustFilter"
    /\ ret' = mustFilter(k, v, list)
    /\ Return
    /\ UNCHANGED <<m, out, pos, li, iters, docs>>

Filter ==
    /\ pc = "call" /\ fn = "filter"
    /\ ret' = filter(k, v, list)
    /\ Return
    /\ UNCHANGED <<m, out, pos, li, iters, docs>>

(***************************************************************************)
(* fromYamlDocument: the decoder is created at the head of the stream and  *)
(* the loop decodes one document per iteration into a fresh map.           *)
(***************************************************************************)
NewDecoder ==
    /\ pc = "call" /\ fn = "fromYamlDocument"
    /\ pos' = 1
    /\ li' = <<>>
    /\ pc' = "loop"
    /\ UNCHANGED <<args, m, out, iters, docs, ret>>

\* the iteration putting the decoded document in front of li
DocAppendFront ==
    /\ pc = "loop"
    /\ LET r == Decode(stream, pos, EmptyMap)
       IN  /\ r.err = ""
           /\ m' = r.m
           /\ pos' = r.pos
           /\ li' = <<r.m>> \o li
    /\ iters' = iters + 1
    /\ UNCHANGED <<args, pc, out, docs, ret>>

\* the iteration decodes a document: li = append(li, m)
DocAppend ==
    /\ pc = "loop"
    /\ LET r == Decode(stream, pos, EmptyMap)
       IN  /\ r.err = ""
           /\ m' = r.m
           /\ pos' = r.pos
           /\ li' = Append(li, r.m)
    /\ iters' = iters + 1
    /\ UNCHANGED <<args, pc, out, docs, ret>>

\* the iteration meets io.EOF: return li
DocEOF ==
    /\ pc = "loop"
    /\ LET r == Decode(stream, pos, EmptyMap)
       IN  /\ r.err = EOF
           /\ m' = r.m
           /\ pos' = r.pos
           /\ docs' = li
    /\ iters' = iters + 1
    /\ Return
    /\ UNCHANGED <<li, out, ret>>

\* the iteration returning the error map behind the documents decoded
DocErrorKeepsDocs ==
    /\ pc = "loop"
    /\ LET r == Decode(stream, pos, EmptyMap)
       IN  /\ r.err \notin {"", EOF}
           /\ m' = MapSet(r.m, "Error", StrV(r.err))
           /\ pos' = r.pos
           /\ docs' = Append(li, MapSet(r.m, "Error", StrV(r.err)))
    /\ iters' = iters + 1
    /\ Return
    /\ UNCHANGED <<li, out, ret>>

\* the iteration recording the error and decoding on
DocErrorContinues ==
    /\ pc = "loop"
    /\ LET r == Decode(stream, pos, EmptyMap)
       IN  /\ r.err \notin {"", EOF}
           /\ m' = MapSet(r.m, "Error", StrV(r.err))
           /\ pos' = r.pos
           /\ li' = Append(li, MapSet(r.m, "Error", StrV(r.err)))
    /\ iters' = iters + 1
    /\ UNCHANGED <<args, pc, out, docs, ret>>

\* the iteration meets another error: m["Error"] = err.Error(); return {m}
DocError ==
    /\ pc = "loop"
    /\ LET r == Decode(stream, pos, EmptyMap)
       IN  /\ r.err \notin {"", EOF}
           /\ m' = MapSet(r.m, "Error", StrV(r.err))
           /\ pos' = r.pos
           /\ docs' = <<MapSet(r.m, "Error", StrV(r.err))>>
    /\ iters' = iters + 1
    /\ Return
    /\ UNCHANGED <<li, out, ret>>

Next ==
    \/ FromYAML
    \/ FromJSON
    \/ ToYAML
    \/ ToJSON
    \/ ToTOML
    \/ MustFilter
    \/ Filter
    \/ NewDecoder
    \/ DocAppend
    \/ DocEOF
    \/ DocError

Spec == Init /\ [][Next]_vars

\* a call that has started runs to its return
FairSpec == Spec /\ WF_vars(Next)

(***************************************************************************)
(* Properties.                                                             *)
(***************************************************************************)
Returned(name) == pc = "done" /\ fn = name

\* the error the single-document parser of the called helper reports on str
ParseError ==
    IF fn = "fromYaml" THEN yamlUnmarshal(str, EmptyMap).err
    ELSE jsonUnmarshal(str, EmptyMap).err

FailingDoc(strm) ==
    IF \E i \in 1..Len(strm) : FirstBad(strm[i]) # 0
    THEN CHOOSE i \in 1..Len(strm) :
           FirstBad(strm[i]) # 0 /\ \A j \in 1..(i - 1) : FirstBad(strm[j]) = 0
    ELSE 0

Candidates(coll) ==
    IF coll.kind = "map" THEN <<AsItem(coll)>> ELSE coll.l

\* the call is one mustFilter is defined on: a string key, a sequence,
\* array or map, every candidate a map, a record or a pointer to a record
WellFormedCall ==
    /\ k.kind = "string"
    /\ list.kind \in {"slice", "array", "map"}
    /\ \A i \in 1..Len(Candidates(list)) : ~doFilterPanics(Candidates(list)[i])

C4_RecordMatchesByStringForm ==
    /\ Returned("mustFilter") /\ WellFormedCall
    /\ list.kind = "slice" /\ Len(list.l) = 1
    /\ list.l[1].kind \in {"struct", "ptr"}
    /\ FieldByName(list.l[1].m, k.x).kind # "absent"
    => (ret.res = list.l <=> FieldByName(list.l[1].m, k.x).x = v.x)

\* the rule the claims give for a map: the key is there and its value has
\* the type and the value of the predicate value
MapRule(item, key, value) ==
    /\ key \in MapKeys(item.m)
    /\ item.m[key].kind = value.kind
    /\ item.m[key].x = value.x

\* C5: a map matches iff it has the key and the value under it is
\* deep-equal to the predicate value; a missing key is no match and no
\* error, and the integer 42 does not match the string "42".
C5_MapMatchesByDeepEqual ==
    /\ Returned("mustFilter") /\ WellFormedCall
    /\ \A i \in 1..Len(Candidates(list)) : Candidates(list)[i].kind = "map"
    => /\ ret.err = "" /\ ret.panic = ""
       /\ ret.res = SelectSeq(Candidates(list), LAMBDA it : MapRule(it, k.x, v))

\* a map holding the integer 42 under the key, filtered by the string "42"
C5_Witness ==
    /\ Returned("mustFilter")
    /\ k = StrV("name") /\ v = StrV("42")
    /\ list.kind = "slice" /\ Len(list.l) = 1
    /\ list.l[1].kind = "map" /\ list.l[1].m["name"] = IntV("42")
    /\ ret = NoResult

\* C6: on a collection that is neither a sequence, an array nor a map
\* (a scalar, null, a bare record) mustFilter returns a TypeMismatch error
\* and no result, and does not abort.
C6_UnsupportedShapeReportsError ==
    Returned("mustFilter") /\ list.kind \notin {"slice", "array", "map"}
    => /\ ret.err # ""
       /\ ret.panic = ""
       /\ ret.res = <<>>

\* C7: filter aborts exactly when mustFilter reports an error through its
\* error return, and otherwise returns the sequence mustFilter returns.
C7_FilterAbortsIffMustFilterErrs ==
    Returned("filter")
    => LET r == mustFilter(k, v, list)
       IN  /\ ret.panic # "" <=> r.err # ""
           /\ r.err = "" => ret.res = r.res

C9_AllDocumentsInOrder ==
    Returned("fromYamlDocument") /\ FailingDoc(stream) = 0
    => /\ Len(docs) = Len(stream)
       /\ \A i \in 1..Len(stream) :
            /\ docs[i] = yamlUnmarshal(stream[i], EmptyMap).m
            /\ MapKeys(docs[i]) = {stream[i][j].key : j \in 1..Len(stream[i])}

\* two different documents, both decoded
C9_Witness ==
    /\ Returned("fromYamlDocument")
    /\ FailingDoc(stream) = 0
    /\ Len(stream) >= 2
    /\ docs[1] # docs[2]
    /\ MapKeys(docs[1]) # {}

\* where the loop stands: one iteration per document decoded so far, none
\* past the first failing document or the end of the input
LoopBound ==
    fn = "fromYamlDocument"
    => /\ iters <= Len(stream) + 1
       /\ pc = "loop" =>
            /\ iters = pos - 1
            /\ pos <= Len(stream) + 1
            /\ \A i \in 1..iters : FirstBad(stream[i]) = 0
       /\ pc = "done" =>
            iters = IF FailingDoc(stream) = 0 THEN Len(stream) + 1
                    ELSE FailingDoc(stream)

\* C10: the decode loop terminates: each iteration returns or consumes one
\* more document, so there are at most (number of documents + 1)
\* iterations, and it returns at the first end-of-input or error.
C10_DecodeLoopTerminates == []LoopBound /\ <>(pc = "done")

\* a stream of two documents read to its end
C10_Witness ==
    /\ Returned("fromYamlDocument")
    /\ Len(stream) >= 2
    /\ iters = Len(stream) + 1

====
